---- MODULE Spec2Model ----
(***************************************************************************)
(* The CS1998 fixer scripts of MCPsharp: fix_cs1998.py, fix_cs1998_v2.py   *)
(* and fix_cs1998_pragmas.py.  Each script's main() walks the flagged      *)
(* (file, line) locations of one file bottom-up and calls its per-location *)
(* rewrite, which reads the file, edits the lines in memory and writes the *)
(* whole file back.                                                        *)
(*                                                                         *)
(* Text is a sequence of one-character strings.  Python indices are        *)
(* 0-based; every line number and character position below is 1-based     *)
(* (Python index + 1), so lines[line_idx] of the source is lines[line_num] *)
(* here and "not found" is 0.                                              *)
(***************************************************************************)
EXTENDS Integers, Sequences, FiniteSets, TLC

(***************************************************************************)
(* Characters and Python's str predicates.                                 *)
(***************************************************************************)
Letters ==
  { "a", "b", "c", "d", "e", "f", "g", "h", "i", "j", "k", "l", "m",
    "n", "o", "p", "q", "r", "s", "t", "u", "v", "w", "x", "y", "z",
    "A", "B", "C", "D", "E", "F", "G", "H", "I", "J", "K", "L", "M",
    "N", "O", "P", "Q", "R", "S", "T", "U", "V", "W", "X", "Y", "Z" }

Digits ==
  { "0", "1", "2", "3", "4", "5", "6", "7", "8", "9" }

\* str.isalnum() on one character
isalnum(c) ==
  c \in Letters \cup Digits

\* str.isspace() on one character
isspace(c) ==
  c \in { " ", "\n", "\t", "\r" }

\* the regular expression class \w; \b is a change of this class
isword(c) ==
  isalnum(c) \/ c = "_"

(***************************************************************************)
(* The literal texts of the scripts.                                       *)
(***************************************************************************)
\*   'async'
kw_async ==
  << "a", "s", "y", "n", "c" >>

\*   'return'
kw_return ==
  << "r", "e", "t", "u", "r", "n" >>

\*   'Task<'
txt_Task_lt ==
  << "T", "a", "s", "k", "<" >>

\*   'ValueTask<'
txt_ValueTask_lt ==
  << "V", "a", "l", "u", "e", "T", "a", "s", "k", "<" >>

\*   'Task '
txt_Task_sp ==
  << "T", "a", "s", "k", " " >>

\*   'Task.FromResult'
txt_Task_FromResult ==
  <<
    "T", "a", "s", "k", ".", "F", "r", "o", "m", "R", "e", "s", "u", "l", "t" >>

\*   'return Task.FromResult('
txt_return_FromResult ==
  <<
    "r", "e", "t", "u", "r", "n", " ", "T", "a", "s", "k", ".", "F", "r", "o", "m", "R", "e",
    "s", "u", "l", "t", "(" >>

\*   'return Task.CompletedTask;'
txt_return_Completed ==
  <<
    "r", "e", "t", "u", "r", "n", " ", "T", "a", "s", "k", ".", "C", "o", "m", "p", "l", "e",
    "t", "e", "d", "T", "a", "s", "k", ";" >>

\*   'pragma warning disable CS1998'
txt_pragma_probe ==
  <<
    "p", "r", "a", "g", "m", "a", " ", "w", "a", "r", "n", "i", "n", "g", " ", "d", "i", "s",
    "a", "b", "l", "e", " ", "C", "S", "1", "9", "9", "8" >>

\*   '#pragma warning disable CS1998 // Async method lacks await (synchronous implementation)\n'
txt_pragma_line ==
  <<
    "#", "p", "r", "a", "g", "m", "a", " ", "w", "a", "r", "n", "i", "n", "g", " ", "d", "i",
    "s", "a", "b", "l", "e", " ", "C", "S", "1", "9", "9", "8", " ", "/", "/", " ", "A", "s",
    "y", "n", "c", " ", "m", "e", "t", "h", "o", "d", " ", "l", "a", "c", "k", "s", " ", "a",
    "w", "a", "i", "t", " ", "(", "s", "y", "n", "c", "h", "r", "o", "n", "o", "u", "s", " ",
    "i", "m", "p", "l", "e", "m", "e", "n", "t", "a", "t", "i", "o", "n", ")", "\n" >>

\*   'async '
txt_async_sp ==
  << "a", "s", "y", "n", "c", " " >>

(***************************************************************************)
(* Python's sequence operations on text.                                   *)
(***************************************************************************)
\* s[i-1 : i-1+len(w)] == w
HasAt(s, i, w) ==
  /\ i >= 1
  /\ i + Len(w) - 1 <= Len(s)
  /\ SubSeq(s, i, i + Len(w) - 1) = w

\* the least position of a set of positions, 0 when it is empty
First(S) ==
  IF S = {} THEN 0 ELSE CHOOSE m \in S : \A k \in S : m <= k

\* s.find(w, i-1) + 1: the first position >= i where w stands, 0 when none
FindFrom(s, w, i) ==
  First({ k \in i..(Len(s) - Len(w) + 1) : HasAt(s, k, w) })

\* w in s
Contains(s, w) ==
  FindFrom(s, w, 1) # 0

\* the position of the first character at or after i that is not whitespace
RECURSIVE skip_ws(_, _)
skip_ws(s, i) ==
  IF i <= Len(s) /\ isspace(s[i]) THEN skip_ws(s, i + 1) ELSE i

\* the position of the last character at or before i that is not whitespace
RECURSIVE skip_ws_back(_, _)
skip_ws_back(s, i) ==
  IF i >= 1 /\ isspace(s[i]) THEN skip_ws_back(s, i - 1) ELSE i

\* s.strip()
strip(s) ==
  SubSeq(s, skip_ws(s, 1), skip_ws_back(s, Len(s)))

\* content.splitlines(keepends=True) and f.readlines(): the text cut after
\* every line feed (the files here hold no other line boundary)
RECURSIVE splitlines(_)
splitlines(content) ==
  IF content = << >> THEN << >>
  ELSE LET nl == FindFrom(content, << "\n" >>, 1)
       IN  IF nl = 0 THEN << content >>
           ELSE << SubSeq(content, 1, nl) >>
                  \o splitlines(SubSeq(content, nl + 1, Len(content)))

\* ''.join(lines[a-1 : b]), which is also what f.writelines(lines) writes
RECURSIVE join(_, _, _)
join(lines, a, b) ==
  IF a > b \/ a > Len(lines) THEN << >>
  ELSE lines[a] \o join(lines, a + 1, b)

(***************************************************************************)
(* The regular expressions of the scripts, each by what re does with it.   *)
(***************************************************************************)
\* \bword at position i of s: the word stands there and no \w precedes it
word_at(s, i, w) ==
  /\ HasAt(s, i, w)
  /\ (i = 1 \/ ~isword(s[i - 1]))

\* re.sub(r'\basync\s+', '', line): every 'async' with its run of
\* whitespace is dropped
async_match(line, i) ==
  word_at(line, i, kw_async) /\ skip_ws(line, i + 5) > i + 5

RECURSIVE sub_async(_, _)
sub_async(line, i) ==
  LET m == First({ k \in i..Len(line) : async_match(line, k) })
  IN  IF m = 0 THEN SubSeq(line, i, Len(line))
      ELSE SubSeq(line, i, m - 1) \o sub_async(line, skip_ws(line, m + 5))

\* re.search(prefix + r'(.+?)>', line) is not None, for prefix 'Task<' or
\* 'ValueTask<': the prefix, one or more characters other than a line feed,
\* and a '>'
search_generic(line, prefix) ==
  \E i \in 1..Len(line) :
    /\ HasAt(line, i, prefix)
    /\ \E k \in (i + Len(prefix) + 1)..Len(line) :
         /\ line[k] = ">"
         /\ \A m \in (i + Len(prefix))..(k - 1) : line[m] # "\n"

\* re.sub(r'\breturn\s*;', 'return Task.CompletedTask;', text)
bare_return_match(text, i) ==
  word_at(text, i, kw_return) /\ HasAt(text, skip_ws(text, i + 6), << ";" >>)

RECURSIVE sub_bare_return(_, _)
sub_bare_return(text, i) ==
  LET m == First({ k \in i..Len(text) : bare_return_match(text, k) })
  IN  IF m = 0 THEN SubSeq(text, i, Len(text))
      ELSE SubSeq(text, i, m - 1) \o txt_return_Completed
             \o sub_bare_return(text, skip_ws(text, m + 6) + 1)

(***************************************************************************)
(* fix_cs1998_v2.py                                                        *)
(***************************************************************************)
\* find_method_end, the loop over one line (lines 42-49): every brace
\* counts, wherever it stands.  st.found is the value of "return i".
end_step(line, st) ==
  LET char == line[st.j]
  IN  IF char = "{"
        THEN [st EXCEPT !.brace_count = @ + 1, !.found_start = TRUE, !.j = @ + 1]
      ELSE IF char = "}"
        THEN [st EXCEPT !.brace_count = @ - 1, !.j = @ + 1,
                        !.found = st.found_start /\ st.brace_count - 1 = 0]
      ELSE [st EXCEPT !.j = @ + 1]

\* at most n characters of the line, stopping at "return i"
RECURSIVE end_line(_, _, _)
end_line(line, st, n) ==
  IF st.found \/ st.j > Len(line) THEN st
  ELSE IF n <= 1 THEN end_step(line, st)
  ELSE end_line(line, end_line(line, st, n \div 2), n - n \div 2)

\* the loop over the lines (line 40); len(lines) when no brace closes the
\* count (line 51)
RECURSIVE end_lines(_, _, _)
end_lines(lines, i, st) ==
  IF i > Len(lines) THEN Len(lines)
  ELSE LET after == end_line(lines[i], [st EXCEPT !.j = 1], Len(lines[i]))
       IN  IF after.found THEN i ELSE end_lines(lines, i + 1, after)

find_method_end(lines, start_idx) ==
  end_lines(lines, start_idx,
            [ j |-> 1, brace_count |-> 0, found_start |-> FALSE, found |-> FALSE ])

\* The scanner state at the start of a return value (lines 107-114); pos is
\* the position scanned next and stmt_end the position of the ';' that ended
\* the statement, 0 until it is found.
scan_start(value_start) ==
  [ pos |-> value_start, in_string |-> FALSE, in_char |-> FALSE, in_verbatim |-> FALSE,
    escape_next |-> FALSE, paren_depth |-> 0, brace_depth |-> 0, bracket_depth |-> 0,
    stmt_end |-> 0 ]

\* scan_step with an apostrophe that opens a character literal inside a
\* string as well
scan_step_any_apostrophe(body, st) ==
  LET i == st.pos
      char == body[i]
  IN  IF st.escape_next
        THEN [st EXCEPT !.escape_next = FALSE, !.pos = i + 1]
      ELSE IF st.in_verbatim
        THEN IF char = "\""
               THEN IF i + 1 <= Len(body) /\ body[i + 1] = "\""
                      THEN [st EXCEPT !.pos = i + 2]
                      ELSE [st EXCEPT !.in_verbatim = FALSE, !.pos = i + 1]
               ELSE [st EXCEPT !.pos = i + 1]
      ELSE IF char = "\\" /\ (st.in_string \/ st.in_char)
        THEN [st EXCEPT !.escape_next = TRUE, !.pos = i + 1]
      ELSE IF /\ char = "@"
              /\ i + 1 <= Len(body)
              /\ body[i + 1] = "\""
              /\ ~st.in_string
              /\ ~st.in_char
        THEN [st EXCEPT !.in_verbatim = TRUE, !.pos = i + 2]
      ELSE IF char = "\"" /\ ~st.in_char
        THEN [st EXCEPT !.in_string = ~st.in_string, !.pos = i + 1]
      ELSE IF char = "'"
        THEN [st EXCEPT !.in_char = ~st.in_char, !.pos = i + 1]
      ELSE IF ~st.in_string /\ ~st.in_char
        THEN IF char = "(" THEN [st EXCEPT !.paren_depth = @ + 1, !.pos = i + 1]
             ELSE IF char = ")" THEN [st EXCEPT !.paren_depth = @ - 1, !.pos = i + 1]
             ELSE IF char = "{" THEN [st EXCEPT !.brace_depth = @ + 1, !.pos = i + 1]
             ELSE IF char = "}" THEN [st EXCEPT !.brace_depth = @ - 1, !.pos = i + 1]
             ELSE IF char = "[" THEN [st EXCEPT !.bracket_depth = @ + 1, !.pos = i + 1]
             ELSE IF char = "]" THEN [st EXCEPT !.bracket_depth = @ - 1, !.pos = i + 1]
             ELSE IF /\ char = ";"
                     /\ st.paren_depth = 0
                     /\ st.brace_depth = 0
                     /\ st.bracket_depth = 0
               THEN [st EXCEPT !.stmt_end = i, !.pos = i + 1]
             ELSE [st EXCEPT !.pos = i + 1]
      ELSE [st EXCEPT !.pos = i + 1]

\* scan_step without the doubled quote of a verbatim string (lines 125-127)
scan_step_no_doubled_quote(body, st) ==
  LET i == st.pos
      char == body[i]
  IN  IF st.escape_next
        THEN [st EXCEPT !.escape_next = FALSE, !.pos = i + 1]
      ELSE IF st.in_verbatim
        THEN IF char = "\""
               THEN [st EXCEPT !.in_verbatim = FALSE, !.pos = i + 1]
               ELSE [st EXCEPT !.pos = i + 1]
      ELSE IF char = "\\" /\ (st.in_string \/ st.in_char)
        THEN [st EXCEPT !.escape_next = TRUE, !.pos = i + 1]
      ELSE IF /\ char = "@"
              /\ i + 1 <= Len(body)
              /\ body[i + 1] = "\""
              /\ ~st.in_string
              /\ ~st.in_char
        THEN [st EXCEPT !.in_verbatim = TRUE, !.pos = i + 2]
      ELSE IF char = "\"" /\ ~st.in_char
        THEN [st EXCEPT !.in_string = ~st.in_string, !.pos = i + 1]
      ELSE IF char = "'" /\ ~st.in_string
        THEN [st EXCEPT !.in_char = ~st.in_char, !.pos = i + 1]
      ELSE IF ~st.in_string /\ ~st.in_char
        THEN IF char = "(" THEN [st EXCEPT !.paren_depth = @ + 1, !.pos = i + 1]
             ELSE IF char = ")" THEN [st EXCEPT !.paren_depth = @ - 1, !.pos = i + 1]
             ELSE IF char = "{" THEN [st EXCEPT !.brace_depth = @ + 1, !.pos = i + 1]
             ELSE IF char = "}" THEN [st EXCEPT !.brace_depth = @ - 1, !.pos = i + 1]
             ELSE IF char = "[" THEN [st EXCEPT !.bracket_depth = @ + 1, !.pos = i + 1]
             ELSE IF char = "]" THEN [st EXCEPT !.bracket_depth = @ - 1, !.pos = i + 1]
             ELSE IF /\ char = ";"
                     /\ st.paren_depth = 0
                     /\ st.brace_depth = 0
                     /\ st.bracket_depth = 0
               THEN [st EXCEPT !.stmt_end = i, !.pos = i + 1]
             ELSE [st EXCEPT !.pos = i + 1]
      ELSE [st EXCEPT !.pos = i + 1]

\* One pass of the while loop at lines 116-180 over the character at st.pos.
scan_step(body, st) ==
  LET i == st.pos
      char == body[i]
  IN  IF st.escape_next
        THEN [st EXCEPT !.escape_next = FALSE, !.pos = i + 1]
      ELSE IF st.in_verbatim
        THEN IF char = "\""
               THEN IF i + 1 <= Len(body) /\ body[i + 1] = "\""
                      THEN [st EXCEPT !.pos = i + 2]
                      ELSE [st EXCEPT !.in_verbatim = FALSE, !.pos = i + 1]
               ELSE [st EXCEPT !.pos = i + 1]
      ELSE IF char = "\\" /\ (st.in_string \/ st.in_char)
        THEN [st EXCEPT !.escape_next = TRUE, !.pos = i + 1]
      ELSE IF /\ char = "@"
              /\ i + 1 <= Len(body)
              /\ body[i + 1] = "\""
              /\ ~st.in_string
              /\ ~st.in_char
        THEN [st EXCEPT !.in_verbatim = TRUE, !.pos = i + 2]
      ELSE IF char = "\"" /\ ~st.in_char
        THEN [st EXCEPT !.in_string = ~st.in_string, !.pos = i + 1]
      ELSE IF char = "'" /\ ~st.in_string
        THEN [st EXCEPT !.in_char = ~st.in_char, !.pos = i + 1]
      ELSE IF ~st.in_string /\ ~st.in_char
        THEN IF char = "(" THEN [st EXCEPT !.paren_depth = @ + 1, !.pos = i + 1]
             ELSE IF char = ")" THEN [st EXCEPT !.paren_depth = @ - 1, !.pos = i + 1]
             ELSE IF char = "{" THEN [st EXCEPT !.brace_depth = @ + 1, !.pos = i + 1]
             ELSE IF char = "}" THEN [st EXCEPT !.brace_depth = @ - 1, !.pos = i + 1]
             ELSE IF char = "[" THEN [st EXCEPT !.bracket_depth = @ + 1, !.pos = i + 1]
             ELSE IF char = "]" THEN [st EXCEPT !.bracket_depth = @ - 1, !.pos = i + 1]
             ELSE IF /\ char = ";"
                     /\ st.paren_depth = 0
                     /\ st.brace_depth = 0
                     /\ st.bracket_depth = 0
               THEN [st EXCEPT !.stmt_end = i, !.pos = i + 1]
             ELSE [st EXCEPT !.pos = i + 1]
      ELSE [st EXCEPT !.pos = i + 1]

\* The while loop at lines 116-180, at most n passes of it: it ends at the
\* statement's ';' (break) or at the end of the method body.
RECURSIVE scan_loop(_, _, _)
scan_loop(body, st, n) ==
  IF st.pos > Len(body) \/ st.stmt_end # 0 THEN st
  ELSE IF n <= 1 THEN scan_step(body, st)
  ELSE scan_loop(body, scan_loop(body, st, n \div 2), n - n \div 2)

scan_return(body, value_start) ==
  scan_loop(body, scan_start(value_start), Len(body))

\* The test at lines 94-96: 'return' stands at i, no alphanumeric character
\* precedes it and whitespace follows it.
at_return(body, i) ==
  /\ HasAt(body, i, kw_return)
  /\ (i = 1 \/ ~isalnum(body[i - 1]))
  /\ i + 6 <= Len(body)
  /\ isspace(body[i + 6])

\* Lines 169-175: the text a finished return statement is replaced by.
wrapped_return(body, return_start, value_start, stmt_end) ==
  LET return_value == strip(SubSeq(body, value_start, stmt_end - 1))
  IN  IF ~Contains(return_value, txt_Task_FromResult)
        THEN txt_return_FromResult \o return_value \o << ")", ";" >>
        ELSE SubSeq(body, return_start, stmt_end)

\* Lines 90-186: the Task<T> branch, new_body from position i on.  A return
\* whose scan reaches the end of the body appends nothing.
RECURSIVE wrap_returns(_, _)
wrap_returns(body, i) ==
  LET return_start == First({ k \in i..Len(body) : at_return(body, k) })
  IN  IF return_start = 0 THEN SubSeq(body, i, Len(body))
      ELSE LET value_start == skip_ws(body, return_start + 6)
               st == scan_return(body, value_start)
           IN  SubSeq(body, i, return_start - 1)
                 \o IF st.stmt_end = 0 THEN << >>
                    ELSE wrapped_return(body, return_start, value_start, st.stmt_end)
                           \o wrap_returns(body, st.stmt_end + 1)

\* What one call leaves behind: the value returned, the file's content
\* after it, and the line found as the method's end (0 when the call ends
\* before looking for it).
Outcome(ok, content, method_end) ==
  [ ok |-> ok, content |-> content, method_end |-> method_end ]

\* Lines 72-203 of fix_async_method: the flagged line holds 'async'; the
\* method is rewritten in memory, the file is written once, True is returned.
rewrite_v2(lines, line_num) ==
  LET signature == sub_async(lines[line_num], 1)
      lines1 == [lines EXCEPT ![line_num] = signature]
      returns_task_t == \/ search_generic(signature, txt_Task_lt)
                        \/ search_generic(signature, txt_ValueTask_lt)
      returns_plain_task == Contains(signature, txt_Task_sp) /\ ~returns_task_t
      method_end == find_method_end(lines1, line_num)
      method_body == join(lines1, line_num, method_end)
      new_body == IF returns_task_t THEN wrap_returns(method_body, 1)
                  ELSE IF returns_plain_task THEN sub_bare_return(method_body, 1)
                  ELSE method_body
      new_lines == splitlines(new_body)
      written == SubSeq(lines1, 1, line_num - 1) \o new_lines
                   \o SubSeq(lines1, method_end + 1, Len(lines1))
  IN  Outcome(TRUE, join(written, 1, Len(written)), method_end)

\* fix_async_method without its "return True": the file is written and
\* the caller is told nothing was fixed
fix_async_method_no_return(content, line_num, read_fails) ==
  IF read_fails THEN Outcome(FALSE, content, 0)
  ELSE LET lines == splitlines(content)
       IN  IF line_num < 1 \/ line_num > Len(lines) THEN Outcome(FALSE, content, 0)
           ELSE IF ~Contains(lines[line_num], kw_async) THEN Outcome(FALSE, content, 0)
           ELSE [ rewrite_v2(lines, line_num) EXCEPT !.ok = FALSE ]

\* fix_async_method of fix_cs1998_v2.py on the file's content.  read_fails:
\* open() or read() raises, and the except clause returns False.
fix_async_method_v2(content, line_num, read_fails) ==
  IF read_fails THEN Outcome(FALSE, content, 0)
  ELSE LET lines == splitlines(content)
       IN  IF line_num < 1 \/ line_num > Len(lines) THEN Outcome(FALSE, content, 0)
           ELSE IF ~Contains(lines[line_num], kw_async) THEN Outcome(FALSE, content, 0)
           ELSE rewrite_v2(lines, line_num)

(***************************************************************************)
(* fix_cs1998.py                                                           *)
(***************************************************************************)
\* The greatest position of a set of positions, 0 when it is empty
Last(S) ==
  IF S = {} THEN 0 ELSE CHOOSE m \in S : \A k \in S : k <= m

\* (.+?); tried from position q: the position of the nearest ';' after q
\* that no line feed separates from q, 0 when there is none
lazy_semicolon(line, q) ==
  First({ k \in (q + 1)..Len(line) :
            /\ line[k] = ";"
            /\ \A m \in q..(k - 1) : line[m] # "\n" })

\* r'\breturn\s+(.+?);' tried at position i: \s+ takes the whole run of
\* whitespace and gives characters back one by one until (.+?); matches.
\* The result is the position where group 1 starts, 0 when nothing matches.
value_return_group(line, i) ==
  IF word_at(line, i, kw_return) /\ skip_ws(line, i + 6) > i + 6
    THEN Last({ q \in (i + 7)..skip_ws(line, i + 6) :
                  q <= Len(line) /\ lazy_semicolon(line, q) # 0 })
    ELSE 0

\* re.search(r'\breturn\s+(.+?);', line): the position of the leftmost match
search_value_return(line) ==
  First({ i \in 1..Len(line) : value_return_group(line, i) # 0 })

\* re.sub(r'\breturn\s+(.+?);', r'return Task.FromResult(\1);', line)
RECURSIVE sub_value_return(_, _)
sub_value_return(line, i) ==
  LET m == First({ k \in i..Len(line) : value_return_group(line, k) # 0 })
  IN  IF m = 0 THEN SubSeq(line, i, Len(line))
      ELSE LET q == value_return_group(line, m)
               semi == lazy_semicolon(line, q)
           IN  SubSeq(line, i, m - 1) \o txt_return_FromResult
                 \o SubSeq(line, q, semi - 1) \o << ")", ";" >>
                 \o sub_value_return(line, semi + 1)

\* re.match(r'\s*return\s*;', line) is not None
match_bare_return(line) ==
  LET p == skip_ws(line, 1)
  IN  HasAt(line, p, kw_return) /\ HasAt(line, skip_ws(line, p + 6), << ";" >>)

\* find_method_body, one pass of the loop over a line's characters (lines
\* 51-94).  st.j is the position looked at; st.broke is the break at line 73.
body_step(line, st) ==
  LET char == line[st.j]
      next == [st EXCEPT !.j = @ + 1]
  IN  IF st.escape_next
        THEN [next EXCEPT !.escape_next = FALSE]
      ELSE IF char = "\\" /\ (st.in_string \/ st.in_char)
        THEN [next EXCEPT !.escape_next = TRUE]
      ELSE IF /\ ~st.in_string /\ ~st.in_char /\ ~st.in_single_comment
              /\ HasAt(line, st.j, << "/", "*" >>)
        THEN [next EXCEPT !.in_multi_comment = TRUE]
      ELSE IF /\ ~st.in_string /\ ~st.in_char /\ ~st.in_single_comment
              /\ st.in_multi_comment
              /\ HasAt(line, st.j, << "*", "/" >>)
        THEN [next EXCEPT !.in_multi_comment = FALSE]
      ELSE IF /\ ~st.in_string /\ ~st.in_char /\ ~st.in_multi_comment
              /\ HasAt(line, st.j, << "/", "/" >>)
        THEN [st EXCEPT !.in_single_comment = TRUE, !.broke = TRUE]
      ELSE IF st.in_single_comment \/ st.in_multi_comment
        THEN next
      ELSE IF char = "\"" /\ ~st.in_char
        THEN [next EXCEPT !.in_string = ~st.in_string]
      ELSE IF char = "'" /\ ~st.in_string
        THEN [next EXCEPT !.in_char = ~st.in_char]
      ELSE IF ~st.in_string /\ ~st.in_char
        THEN IF char = "{"
               THEN [next EXCEPT !.found_brace = TRUE, !.brace_count = @ + 1]
             ELSE IF char = "}"
               THEN [next EXCEPT !.brace_count = @ - 1]
             ELSE next
      ELSE next

\* at most n passes of the loop over the line's characters
RECURSIVE body_line(_, _, _)
body_line(line, st, n) ==
  IF st.broke \/ st.j > Len(line) THEN st
  ELSE IF n <= 1 THEN body_step(line, st)
  ELSE body_line(line, body_line(line, st, n \div 2), n - n \div 2)

\* Lines 99-109: the return statement the two searches see on a line, as
\* << line number, value >>, or nothing
line_returns(line, i) ==
  LET m == search_value_return(line)
  IN  IF m # 0
        THEN LET q == value_return_group(line, m)
             IN  << << i, strip(SubSeq(line, q, lazy_semicolon(line, q) - 1)) >> >>
      ELSE IF \E k \in 1..Len(line) : bare_return_match(line, k)
        THEN << << i, << >> >> >>
      ELSE << >>

\* the lines a scan started at start_idx may look at (line 47)
ScanWindow ==
  200

\* The loop over the lines (lines 47-113) from line i on.  Beside what the
\* function returns, st is the scanner's state when the loop ends.
RECURSIVE body_lines(_, _, _, _, _)
body_lines(lines, start_idx, i, st, return_statements) ==
  IF i > Len(lines) \/ i >= start_idx + ScanWindow
    THEN [ end_idx |-> start_idx, return_statements |-> return_statements, st |-> st ]
  ELSE LET scanned == body_line(lines[i], [st EXCEPT !.j = 1, !.broke = FALSE],
                                Len(lines[i]))
           after == [scanned EXCEPT !.in_single_comment = FALSE]
           found == IF after.found_brace /\ after.brace_count > 0
                      THEN return_statements \o line_returns(lines[i], i)
                      ELSE return_statements
       IN  IF after.found_brace /\ after.brace_count = 0
             THEN [ end_idx |-> i, return_statements |-> found, st |-> after ]
             ELSE body_lines(lines, start_idx, i + 1, after, found)

\* lines 37-45: the scanner's local variables before the first line
body_start ==
  [ j |-> 1, broke |-> FALSE, brace_count |-> 0, found_brace |-> FALSE,
    in_string |-> FALSE, in_char |-> FALSE, in_single_comment |-> FALSE,
    in_multi_comment |-> FALSE, escape_next |-> FALSE ]

find_method_body(lines, start_idx) ==
  body_lines(lines, start_idx, start_idx, body_start, << >>)

\* Lines 152-160 and 164-168: the loops over reversed(return_statements),
\* from the k-th statement down to the first
RECURSIVE wrap_lines(_, _, _)
wrap_lines(lines, return_statements, k) ==
  IF k = 0 THEN lines
  ELSE LET ret_idx == return_statements[k][1]
       IN  wrap_lines(IF ~Contains(lines[ret_idx], txt_Task_FromResult)
                        THEN [lines EXCEPT ![ret_idx] = sub_value_return(lines[ret_idx], 1)]
                        ELSE lines,
                      return_statements, k - 1)

RECURSIVE complete_lines(_, _, _)
complete_lines(lines, return_statements, k) ==
  IF k = 0 THEN lines
  ELSE LET ret_idx == return_statements[k][1]
       IN  complete_lines(IF match_bare_return(lines[ret_idx])
                            THEN [lines EXCEPT ![ret_idx] = sub_bare_return(lines[ret_idx], 1)]
                            ELSE lines,
                          return_statements, k - 1)

\* Lines 135-173 of fix_async_method: the flagged line holds 'async'; the
\* lines are rewritten in memory, the file is written once, True is returned.
rewrite_v1(lines, line_num) ==
  LET original_line == lines[line_num]
      fixed_line == sub_async(original_line, 1)
      returns_task_t == \/ search_generic(original_line, txt_Task_lt)
                        \/ search_generic(original_line, txt_ValueTask_lt)
      returns_plain_task == Contains(original_line, txt_Task_sp) /\ ~returns_task_t
      body == find_method_body(lines, line_num)
      lines1 == [lines EXCEPT ![line_num] = fixed_line]
      n == Len(body.return_statements)
      written == IF returns_task_t THEN wrap_lines(lines1, body.return_statements, n)
                 ELSE IF returns_plain_task
                   THEN complete_lines(lines1, body.return_statements, n)
                 ELSE lines1
  IN  Outcome(TRUE, join(written, 1, Len(written)), body.end_idx)

\* fix_async_method of fix_cs1998.py on the file's content
fix_async_method_v1(content, line_num, read_fails) ==
  IF read_fails THEN Outcome(FALSE, content, 0)
  ELSE LET lines == splitlines(content)
       IN  IF line_num < 1 \/ line_num > Len(lines) THEN Outcome(FALSE, content, 0)
           ELSE IF ~Contains(lines[line_num], kw_async) THEN Outcome(FALSE, content, 0)
           ELSE rewrite_v1(lines, line_num)

(***************************************************************************)
(* fix_cs1998_pragmas.py                                                   *)
(***************************************************************************)
RECURSIVE spaces(_)
spaces(n) ==
  IF n <= 0 THEN << >> ELSE << " " >> \o spaces(n - 1)

\* add_pragma_disable writing the pragma over the flagged line instead of
\* inserting it
add_pragma_overwrite(content, line_num, read_fails) ==
  IF read_fails THEN Outcome(FALSE, content, 0)
  ELSE LET lines == splitlines(content)
       IN  IF line_num < 1 \/ line_num > Len(lines) THEN Outcome(FALSE, content, 0)
           ELSE IF line_num > 1 /\ Contains(lines[line_num - 1], txt_pragma_probe)
             THEN Outcome(TRUE, content, 0)
           ELSE LET method_line == lines[line_num]
                    indent == skip_ws(method_line, 1) - 1
                    pragma_line == spaces(indent) \o txt_pragma_line
                    written == [lines EXCEPT ![line_num] = pragma_line]
                IN  Outcome(TRUE, join(written, 1, Len(written)), 0)

\* add_pragma_disable on the file's content
add_pragma_disable(content, line_num, read_fails) ==
  IF read_fails THEN Outcome(FALSE, content, 0)
  ELSE LET lines == splitlines(content)
       IN  IF line_num < 1 \/ line_num > Len(lines) THEN Outcome(FALSE, content, 0)
           ELSE IF line_num > 1 /\ Contains(lines[line_num - 1], txt_pragma_probe)
             THEN Outcome(TRUE, content, 0)
           ELSE LET method_line == lines[line_num]
                    indent == skip_ws(method_line, 1) - 1
                    pragma_line == spaces(indent) \o txt_pragma_line
                    written == SubSeq(lines, 1, line_num - 1) \o << pragma_line >>
                                 \o SubSeq(lines, line_num, Len(lines))
                IN  Outcome(TRUE, join(written, 1, Len(written)), 0)

(***************************************************************************)
(* bulk_fix_async.py                                                       *)
(***************************************************************************)
\* fix_file, the loop over sorted(set(line_nums), reverse=True) (lines
\* 40-50): a line number outside the file is passed over, a line holding
\* 'async ' loses every 'async' with its whitespace
RECURSIVE fix_lines(_, _)
fix_lines(lines, line_nums) ==
  IF line_nums = {} THEN lines
  ELSE LET line_num == Last(line_nums)
           fixed == IF line_num < 1 \/ line_num > Len(lines) THEN lines
                    ELSE IF Contains(lines[line_num], txt_async_sp)
                      THEN [lines EXCEPT ![line_num] = sub_async(lines[line_num], 1)]
                    ELSE lines
       IN  fix_lines(fixed, line_nums \ {line_num})

\* fix_file on the file's content: whether it raised, and the content it
\* left.  read_fails: open() or readlines() raises, and nothing is written.
fix_file(content, line_nums, read_fails) ==
  IF read_fails THEN [ raised |-> TRUE, content |-> content ]
  ELSE LET lines == fix_lines(splitlines(content), line_nums)
       IN  [ raised |-> FALSE, content |-> join(lines, 1, Len(lines)) ]
(***************************************************************************)
(* The inputs: C# methods as the scripts meet them, and the files made of  *)
(* them.                                                                   *)
(***************************************************************************)
\*   async Task<int> C() {
\*   Func<int> f = () => { return 5; };
\*   return
\*     f(); }
m_multiline ==
  <<
    "a", "s", "y", "n", "c", " ", "T", "a", "s", "k", "<", "i", "n", "t", ">", " ", "C", "(",
    ")", " ", "{", "\n", "F", "u", "n", "c", "<", "i", "n", "t", ">", " ", "f", " ", "=", " ",
    "(", ")", " ", "=", ">", " ", "{", " ", "r", "e", "t", "u", "r", "n", " ", "5", ";", " ",
    "}", ";", "\n", "r", "e", "t", "u", "r", "n", "\n", " ", " ", "f", "(", ")", ";", " ", "}",
    "\n" >>

\*   async Task<int> F() { if (x) { return 1; } return 2; }
m_compute ==
  <<
    "a", "s", "y", "n", "c", " ", "T", "a", "s", "k", "<", "i", "n", "t", ">", " ", "F", "(",
    ")", " ", "{", " ", "i", "f", " ", "(", "x", ")", " ", "{", " ", "r", "e", "t", "u", "r",
    "n", " ", "1", ";", " ", "}", " ", "r", "e", "t", "u", "r", "n", " ", "2", ";", " ", "}",
    "\n" >>

\*   async Task P() { return; }
m_ping ==
  <<
    "a", "s", "y", "n", "c", " ", "T", "a", "s", "k", " ", "P", "(", ")", " ", "{", " ", "r",
    "e", "t", "u", "r", "n", ";", " ", "}", "\n" >>

\*   async Task<string> S() {
\*   // return x;
\*   return "a { b; } c";
\*   }
m_literal ==
  <<
    "a", "s", "y", "n", "c", " ", "T", "a", "s", "k", "<", "s", "t", "r", "i", "n", "g", ">",
    " ", "S", "(", ")", " ", "{", "\n", "/", "/", " ", "r", "e", "t", "u", "r", "n", " ", "x",
    ";", "\n", "r", "e", "t", "u", "r", "n", " ", "\"", "a", " ", "{", " ", "b", ";", " ", "}",
    " ", "c", "\"", ";", "\n", "}", "\n" >>

\*   async Task<int> B() {
\*   var s = "}";
\*   return 1;
\*   }
m_brace ==
  <<
    "a", "s", "y", "n", "c", " ", "T", "a", "s", "k", "<", "i", "n", "t", ">", " ", "B", "(",
    ")", " ", "{", "\n", "v", "a", "r", " ", "s", " ", "=", " ", "\"", "}", "\"", ";", "\n",
    "r", "e", "t", "u", "r", "n", " ", "1", ";", "\n", "}", "\n" >>

\*   async Task W() {
\*   if (c) return;
\*   return 7;
\*   }
m_void ==
  <<
    "a", "s", "y", "n", "c", " ", "T", "a", "s", "k", " ", "W", "(", ")", " ", "{", "\n", "i",
    "f", " ", "(", "c", ")", " ", "r", "e", "t", "u", "r", "n", ";", "\n", "r", "e", "t", "u",
    "r", "n", " ", "7", ";", "\n", "}", "\n" >>

MethodPool ==
  << m_multiline, m_compute, m_ping, m_literal, m_brace, m_void >>

\* methods met as the only method of their file
\*   async Task<int> A() {
\*   return a /* it's */ + b;
\*   }
m_apostrophe ==
  <<
    "a", "s", "y", "n", "c", " ", "T", "a", "s", "k", "<", "i", "n", "t", ">", " ", "A", "(",
    ")", " ", "{", "\n", "r", "e", "t", "u", "r", "n", " ", "a", " ", "/", "*", " ", "i", "t",
    "'", "s", " ", "*", "/", " ", "+", " ", "b", ";", "\n", "}", "\n" >>

\*   async Task<string> V() {
\*   var p = @"C:\";
\*   return p;
\*   }
m_verbatim ==
  <<
    "a", "s", "y", "n", "c", " ", "T", "a", "s", "k", "<", "s", "t", "r", "i", "n", "g", ">",
    " ", "V", "(", ")", " ", "{", "\n", "v", "a", "r", " ", "p", " ", "=", " ", "@", "\"", "C",
    ":", "\\", "\"", ";", "\n", "r", "e", "t", "u", "r", "n", " ", "p", ";", "\n", "}", "\n" >>

\*   async Task<int> I() {
\*   my_return = 5;
\*   return my_return;
\*   }
m_ident ==
  <<
    "a", "s", "y", "n", "c", " ", "T", "a", "s", "k", "<", "i", "n", "t", ">", " ", "I", "(",
    ")", " ", "{", "\n", "m", "y", "_", "r", "e", "t", "u", "r", "n", " ", "=", " ", "5", ";",
    "\n", "r", "e", "t", "u", "r", "n", " ", "m", "y", "_", "r", "e", "t", "u", "r", "n", ";",
    "\n", "}", "\n" >>

\*     async Task<int> N() {
\*       return 3;
\*     }
m_indented ==
  <<
    " ", " ", "a", "s", "y", "n", "c", " ", "T", "a", "s", "k", "<", "i", "n", "t", ">", " ",
    "N", "(", ")", " ", "{", "\n", " ", " ", " ", " ", "r", "e", "t", "u", "r", "n", " ", "3",
    ";", "\n", " ", " ", "}", "\n" >>

SoloPool ==
  << m_apostrophe, m_verbatim, m_ident, m_indented >>

\* the most methods a file holds
MaxMethods ==
  3

\* the most flagged locations of a file
MaxLocations ==
  2

\* the most reads that fail in one behaviour
MaxReadErrors ==
  1

\* the methods numbered in S, in the pool's order, one after the other
RECURSIVE FileOf(_)
FileOf(S) ==
  IF S = {} THEN << >>
  ELSE LET m == First(S) IN MethodPool[m] \o FileOf(S \ {m})

Files ==
  { FileOf(S) : S \in { T \in SUBSET (1..Len(MethodPool)) :
                          Cardinality(T) \in 1..MaxMethods } }
    \cup { SoloPool[m] : m \in 1..Len(SoloPool) }

\* the lines a diagnostic may flag: a line that starts a method, or the
\* line after the last one (a location gone stale)
FlaggableLines(content) ==
  LET lines == splitlines(content)
  IN  { n \in 1..Len(lines) : \E m \in 1..Len(MethodPool \o SoloPool) :
                                lines[n] = splitlines((MethodPool \o SoloPool)[m])[1] }
        \cup { Len(lines) + 1 }

\* get_cs1998_warnings keeps each (file, line) once: the flagged lines of
\* the file are a set
LocationSets(content) ==
  { W \in SUBSET FlaggableLines(content) : Cardinality(W) \in 1..MaxLocations }

Scripts ==
  { "fix_cs1998", "fix_cs1998_v2", "fix_cs1998_pragmas", "bulk_fix_async" }

(***************************************************************************)
(* main(): the state of one run over one file.                             *)
(***************************************************************************)
VARIABLES
  script,        \* the script that is run
  disk,          \* the file's content on disk
  warnings,      \* the flagged line numbers get_cs1998_warnings returned
  pending,       \* the line numbers main's loop has still to visit, in its order
  total_fixed,   \* main's counters
  total_failed,
  rerun,         \* whether this is the second run over the same warnings
  start,         \* the file's content when the current run started
  last,          \* the last call: its line, what it returned, the counter main
                 \* raised for it, the content before it, the method end it found
  read_errors,   \* the reads that failed so far
  scan_line,     \* a scan followed character by character: the line it is at
  scan_st        \* and the scanner's local variables

vars ==
  << script, disk, warnings, pending, total_fixed, total_failed, rerun, start, last,
     read_errors, scan_line, scan_st >>

\* sorted(line_numbers): the ascending order
RECURSIVE sorted_forward(_)
sorted_forward(S) ==
  IF S = {} THEN << >>
  ELSE LET m == First(S) IN << m >> \o sorted_forward(S \ {m})

\* sorted(line_numbers, reverse=True)
RECURSIVE sorted_reverse(_)
sorted_reverse(S) ==
  IF S = {} THEN << >>
  ELSE LET m == Last(S) IN << m >> \o sorted_reverse(S \ {m})

\* scan_st while no scan is followed
NoScan ==
  [ pos |-> 0 ]

\* last before the first call of a run
NoCall ==
  [ called |-> FALSE, line_num |-> 0, ok |-> FALSE, counted |-> "nothing",
    before |-> << >>, method_end |-> 0, read_failed |-> FALSE ]

Init ==
  /\ script \in Scripts
  /\ disk \in Files
  /\ warnings \in LocationSets(disk)
  /\ pending = sorted_reverse(warnings)
  /\ total_fixed = 0
  /\ total_failed = 0
  /\ rerun = FALSE
  /\ start = disk
  /\ last = NoCall
  /\ read_errors = 0
  /\ scan_line = 0
  /\ scan_st = NoScan

\* One pass of main's loop over the line numbers: the call, then the
\* counter (v2 lines 240-246, v1 lines 211-217, pragmas lines 100-106).
Visit(outcome, read_fails) ==
  /\ disk' = outcome.content
  /\ pending' = Tail(pending)
  /\ total_fixed' = IF outcome.ok THEN total_fixed + 1 ELSE total_fixed
  /\ total_failed' = IF outcome.ok THEN total_failed ELSE total_failed + 1
  /\ last' = [ called |-> TRUE, line_num |-> Head(pending), ok |-> outcome.ok,
               counted |-> IF outcome.ok THEN "fixed" ELSE "failed",
               before |-> disk, method_end |-> outcome.method_end,
               read_failed |-> read_fails ]
  /\ read_errors' = IF read_fails THEN read_errors + 1 ELSE read_errors
  /\ UNCHANGED << script, warnings, rerun, start, scan_line, scan_st >>

FixV1 ==
  /\ script = "fix_cs1998"
  /\ pending # << >>
  /\ \E read_fails \in { f \in BOOLEAN : f => read_errors < MaxReadErrors } :
     \E outcome \in { fix_async_method_v1(disk, Head(pending), read_fails) } :
       Visit(outcome, read_fails)

FixV2 ==
  /\ script = "fix_cs1998_v2"
  /\ pending # << >>
  /\ \E read_fails \in { f \in BOOLEAN : f => read_errors < MaxReadErrors } :
     \E outcome \in { fix_async_method_v2(disk, Head(pending), read_fails) } :
       Visit(outcome, read_fails)

AddPragma ==
  /\ script = "fix_cs1998_pragmas"
  /\ pending # << >>
  /\ \E read_fails \in { f \in BOOLEAN : f => read_errors < MaxReadErrors } :
     \E outcome \in { add_pragma_disable(disk, Head(pending), read_fails) } :
       Visit(outcome, read_fails)

\* bulk_fix_async.py, one pass of main's loop over the files (lines 86-95):
\* fix_file visits every flagged line of the file in one call; main adds
\* their number to fixed_count (total_fixed here) when the call returns and
\* only prints when it raises: the script keeps no count of failures.  last
\* holds the smallest line number of the call.
BulkFix ==
  /\ script = "bulk_fix_async"
  /\ pending # << >>
  /\ \E read_fails \in { f \in BOOLEAN : f => read_errors < MaxReadErrors } :
     \E outcome \in { fix_file(disk, warnings, read_fails) } :
       /\ disk' = outcome.content
       /\ pending' = << >>
       /\ total_fixed' = IF outcome.raised THEN total_fixed
                         ELSE total_fixed + Cardinality(warnings)
       /\ last' = [ called |-> TRUE, line_num |-> pending[Len(pending)],
                    ok |-> ~outcome.raised,
                    counted |-> IF outcome.raised THEN "nothing" ELSE "fixed",
                    before |-> disk, method_end |-> 0, read_failed |-> read_fails ]
       /\ read_errors' = IF read_fails THEN read_errors + 1 ELSE read_errors
       /\ UNCHANGED << script, warnings, rerun, start, total_failed, scan_line, scan_st >>

\* The script is run again: the same warnings, the file as the first run
\* left it.
Rerun ==
  /\ pending = << >>
  /\ ~rerun
  /\ rerun' = TRUE
  /\ pending' = sorted_reverse(warnings)
  /\ total_fixed' = 0
  /\ total_failed' = 0
  /\ start' = disk
  /\ last' = NoCall
  /\ UNCHANGED << script, disk, warnings, read_errors, scan_line, scan_st >>

Next ==
  \/ FixV1
  \/ FixV2
  \/ AddPragma
  \/ BulkFix
  \/ Rerun

Spec ==
  Init /\ [][Next]_vars

(***************************************************************************)
(* The two scanners, followed one character at a time over every short     *)
(* text of the characters they tell apart.                                 *)
(***************************************************************************)
\* the longest text scanned
MaxScanLen ==
  4

\* the characters the return-statement scan of fix_cs1998_v2 tells apart
ScanCharsV2 ==
  { "\"", "'", "\\", "@", ";", "(" }

\* the characters find_method_body tells apart
ScanCharsV1 ==
  { "\"", "'", "\\", "/", "*", "{", "\n" }

ScanTexts(chars) ==
  UNION { [1..n -> chars] : n \in 1..MaxScanLen }

\* A scan is about to start: find_method_body at the first line of the
\* text, or the return-statement scan at its first character.
ScanInit ==
  /\ script \in { "fix_cs1998", "fix_cs1998_v2" }
  /\ disk \in ScanTexts(IF script = "fix_cs1998" THEN ScanCharsV1 ELSE ScanCharsV2)
  /\ warnings = {}
  /\ pending = << >>
  /\ total_fixed = 0
  /\ total_failed = 0
  /\ rerun = FALSE
  /\ start = disk
  /\ last = NoCall
  /\ read_errors = 0
  /\ scan_line = 1
  /\ scan_st = IF script = "fix_cs1998" THEN body_start ELSE scan_start(1)

\* fix_cs1998_v2, lines 116-180: one pass of the while loop
ScanV2Step ==
  /\ script = "fix_cs1998_v2"
  /\ scan_st.pos <= Len(disk)
  /\ scan_st.stmt_end = 0
  /\ scan_st' = scan_step(disk, scan_st)
  /\ UNCHANGED << script, disk, warnings, pending, total_fixed, total_failed, rerun,
                  start, last, read_errors, scan_line >>

\* find_method_body, lines 51-91: one pass of the loop over a line's characters
ScanBodyChar ==
  /\ script = "fix_cs1998"
  /\ scan_line \in 1..Len(splitlines(disk))
  /\ ~scan_st.broke
  /\ scan_st.j <= Len(splitlines(disk)[scan_line])
  /\ scan_st' = body_step(splitlines(disk)[scan_line], scan_st)
  /\ UNCHANGED << script, disk, warnings, pending, total_fixed, total_failed, rerun,
                  start, last, read_errors, scan_line >>

\* find_method_body, lines 93-113: the end of a line; the scan goes on with
\* the next line unless the method's closing brace was found
ScanBodyLineEnd ==
  /\ script = "fix_cs1998"
  /\ scan_line \in 1..Len(splitlines(disk))
  /\ scan_st.broke \/ scan_st.j > Len(splitlines(disk)[scan_line])
  /\ LET after == [scan_st EXCEPT !.in_single_comment = FALSE]
     IN  IF after.found_brace /\ after.brace_count = 0
           THEN /\ scan_line' = 0
                /\ scan_st' = after
           ELSE /\ scan_line' = scan_line + 1
                /\ scan_st' = [after EXCEPT !.j = 1, !.broke = FALSE]
  /\ UNCHANGED << script, disk, warnings, pending, total_fixed, total_failed, rerun,
                  start, last, read_errors >>

ScanNext ==
  \/ ScanV2Step
  \/ ScanBodyChar
  \/ ScanBodyLineEnd

ScanSpec ==
  ScanInit /\ [][ScanNext]_vars

\*   'Task.FromResult(Task.FromResult('
txt_double_wrap ==
  <<
    "T", "a", "s", "k", ".", "F", "r", "o", "m", "R", "e", "s", "u", "l", "t", "(", "T", "a",
    "s", "k", ".", "F", "r", "o", "m", "R", "e", "s", "u", "l", "t", "(" >>

\*   '=> {'
txt_lambda_open ==
  << "=", ">", " ", "{" >>

\*   '#pragma warning disable CS1998'
txt_pragma_marker ==
  <<
    "#", "p", "r", "a", "g", "m", "a", " ", "w", "a", "r", "n", "i", "n", "g", " ", "d", "i",
    "s", "a", "b", "l", "e", " ", "C", "S", "1", "9", "9", "8" >>

(***************************************************************************)
(* What the specification measures the scripts against: its lexical       *)
(* scanner (section 4.1) and the method span it defines (section 4.3).     *)
(***************************************************************************)
\* The scanner before the first character: its state, and what it has
\* gathered: for each character whether it was met in Code state, and the
\* characters that were not (the text inside literals and comments).
LexStart ==
  [ pos |-> 1, mode |-> "Code", escape |-> FALSE, skip |-> FALSE,
    code |-> << >>, literal |-> << >> ]

\* The state after the character at i; skip marks the second character of
\* a two-character marker.
lex_mode(text, i, st) ==
  LET c == text[i]
      d == IF i < Len(text) THEN text[i + 1] ELSE ""
  IN  IF st.skip THEN [st EXCEPT !.skip = FALSE]
      ELSE IF st.escape THEN [st EXCEPT !.escape = FALSE]
      ELSE IF st.mode = "InString"
        THEN IF c = "\\" THEN [st EXCEPT !.escape = TRUE]
             ELSE IF c = "\"" THEN [st EXCEPT !.mode = "Code"]
             ELSE st
      ELSE IF st.mode = "InChar"
        THEN IF c = "\\" THEN [st EXCEPT !.escape = TRUE]
             ELSE IF c = "'" THEN [st EXCEPT !.mode = "Code"]
             ELSE st
      ELSE IF st.mode = "InVerbatimString"
        THEN IF c = "\"" /\ d = "\"" THEN [st EXCEPT !.skip = TRUE]
             ELSE IF c = "\"" THEN [st EXCEPT !.mode = "Code"]
             ELSE st
      ELSE IF st.mode = "InLineComment"
        THEN IF c = "\n" THEN [st EXCEPT !.mode = "Code"] ELSE st
      ELSE IF st.mode = "InBlockComment"
        THEN IF c = "*" /\ d = "/" THEN [st EXCEPT !.mode = "Code", !.skip = TRUE]
             ELSE st
      ELSE IF c = "@" /\ d = "\"" THEN [st EXCEPT !.mode = "InVerbatimString", !.skip = TRUE]
      ELSE IF c = "\"" THEN [st EXCEPT !.mode = "InString"]
      ELSE IF c = "'" THEN [st EXCEPT !.mode = "InChar"]
      ELSE IF c = "/" /\ d = "/" THEN [st EXCEPT !.mode = "InLineComment", !.skip = TRUE]
      ELSE IF c = "/" /\ d = "*" THEN [st EXCEPT !.mode = "InBlockComment", !.skip = TRUE]
      ELSE st

lex_step(text, st) ==
  LET in_code == st.mode = "Code" /\ ~st.skip
  IN  [ lex_mode(text, st.pos, st) EXCEPT
          !.pos = st.pos + 1,
          !.code = Append(st.code, in_code),
          !.literal = IF in_code THEN st.literal ELSE Append(st.literal, text[st.pos]) ]

\* n steps of the scanner from st, or as many as the text has
RECURSIVE lex_loop(_, _, _)
lex_loop(text, st, n) ==
  IF st.pos > Len(text) THEN st
  ELSE IF n <= 1 THEN lex_step(text, st)
  ELSE lex_loop(text, lex_loop(text, st, n \div 2), n - n \div 2)

Lex(text) ==
  lex_loop(text, LexStart, Len(text))

\* the position before the first character of line n: that of the line
\* feed that ends line n - 1 (the end of the text when it has fewer lines)
LineOffset(text, n) ==
  LET feeds == { k \in 1..Len(text) : text[k] = "\n" }
  IN  IF n <= 1 THEN 0
      ELSE IF Cardinality(feeds) < n - 1 THEN Len(text)
      ELSE CHOOSE k \in feeds : Cardinality({ j \in feeds : j < k }) = n - 2

\* the lines before line n, as text
LinesBefore(text, n) ==
  SubSeq(text, 1, LineOffset(text, n))

\* text starts with prefix
StartsWith(text, prefix) ==
  Len(text) >= Len(prefix) /\ SubSeq(text, 1, Len(prefix)) = prefix

\* the number of the line that holds position p
LineOf(text, p) ==
  Cardinality({ k \in 1..(p - 1) : text[k] = "\n" }) + 1

\* Over the braces met in Code state, in order: the position of the brace
\* that closes the first one opened, 0 when none does.
RECURSIVE closing_brace(_, _, _)
closing_brace(text, braces, depth) ==
  IF braces = {} THEN 0
  ELSE LET p == First(braces)
       IN  IF text[p] = "{" THEN closing_brace(text, braces \ {p}, depth + 1)
           ELSE IF depth = 1 THEN p
           ELSE closing_brace(text, braces \ {p}, IF depth = 0 THEN 0 ELSE depth - 1)

\* The method flagged at line n: the positions from the start of that line
\* to the brace that closes the first brace opened in Code state (to the end
\* of the text when nothing closes it).
MethodSpan(text, n) ==
  LET code == Lex(text).code
      from == LineOffset(text, n) + 1
      close == closing_brace(text,
                             { p \in from..Len(text) : code[p] /\ text[p] \in { "{", "}" } },
                             0)
  IN  [ from |-> from, to |-> IF close = 0 THEN Len(text) ELSE close, closed |-> close # 0 ]

\* a return keyword in Code state at position p
ReturnKeywordAt(text, code, p) ==
  /\ code[p]
  /\ word_at(text, p, kw_return)
  /\ (p + 6 > Len(text) \/ ~isword(text[p + 6]))

FixScripts ==
  { "fix_cs1998", "fix_cs1998_v2" }

\* the last call was fix_async_method on a line of the file, and it read
\* the file
FixCalled ==
  /\ last.called
  /\ script \in FixScripts
  /\ ~last.read_failed
  /\ last.line_num \in 1..Len(splitlines(last.before))

\* the line the last call was given, before the call
FlaggedLine ==
  splitlines(last.before)[last.line_num]

HasAsyncMarker(line) ==
  \E i \in 1..Len(line) : async_match(line, i)

\* the declared return shapes of section 4.4
IsWrappedValue(line) ==
  search_generic(line, txt_Task_lt) \/ search_generic(line, txt_ValueTask_lt)

IsWrappedVoid(line) ==
  Contains(line, txt_Task_sp) /\ ~IsWrappedValue(line)


\* The positions inside the bodies of the lambdas that open ("=> {" in Code
\* state) between from and to: from the body's brace to the brace that
\* closes it.
LambdaBodies(text, from, to) ==
  LET code == Lex(text).code
      opens == { q \in from..to : code[q] /\ HasAt(text, q, txt_lambda_open) }
      close(q) == closing_brace(text,
                                { p \in (q + 3)..Len(text) : code[p] /\ text[p] \in { "{", "}" } },
                                0)
  IN  UNION { (q + 3)..(IF close(q) = 0 THEN to ELSE close(q)) : q \in opens }

\* the text of the lambda bodies of the method flagged at line n
LambdaText(text, n) ==
  LET span == MethodSpan(text, n)
      inside == LambdaBodies(text, span.from, span.to)
  IN  [ k \in 1..Cardinality(inside) |->
          text[CHOOSE p \in inside : Cardinality({ r \in inside : r < p }) = k - 1] ]

(***************************************************************************)
(* The claims.                                                             *)
(***************************************************************************)
\* C1 (literal-safety): a successful fix_async_method on a Task<T> method
\* treats nothing inside a string, a character literal or a comment as
\* structural: the text inside the file's literals and comments is the same
\* after the call as before it.
LiteralSafety ==
  (FixCalled /\ last.ok /\ IsWrappedValue(FlaggedLine))
    => Lex(disk).literal = Lex(last.before).literal

\* C2 (boundary correctness): the method end a successful fix_async_method
\* located is the line of the brace that closes the first brace opened in
\* Code state at or after the flagged line.
BoundaryCorrectness ==
  (FixCalled /\ last.ok /\ MethodSpan(last.before, last.line_num).closed)
    => last.method_end = LineOf(last.before, MethodSpan(last.before, last.line_num).to)

\* C3 (shape-consistent rewriting, wrapped value): after a successful
\* fix_async_method on a Task<T> or ValueTask<T> method the signature holds
\* no async marker, every return statement of the method outside a lambda
\* body reads "return Task.FromResult(", and nothing is wrapped twice.
ShapeWrappedValue ==
  (FixCalled /\ last.ok /\ IsWrappedValue(FlaggedLine))
    => LET span == MethodSpan(disk, last.line_num)
           code == Lex(disk).code
           nested == LambdaBodies(disk, span.from, span.to)
       IN  /\ ~HasAsyncMarker(splitlines(disk)[last.line_num])
           /\ \A p \in span.from..span.to :
                /\ (ReturnKeywordAt(disk, code, p) /\ p \notin nested)
                     => HasAt(disk, p, txt_return_FromResult)
                /\ ~HasAt(disk, p, txt_double_wrap)

\* C4 (idempotence): a second run of the rewrite over the same flagged
\* locations, every read succeeding, leaves the file as the first run left
\* it.
Idempotence ==
  (rerun /\ script \in FixScripts /\ read_errors = 0) => disk = start

\* C5 (shape-consistent rewriting, wrapped void): after a successful
\* fix_async_method on a bare Task method the signature holds no async
\* marker and no bare "return;" is left in the method outside a lambda
\* body, wherever it stood on its line.
ShapeWrappedVoid ==
  (FixCalled /\ last.ok /\ IsWrappedVoid(FlaggedLine))
    => LET span == MethodSpan(disk, last.line_num)
           code == Lex(disk).code
           nested == LambdaBodies(disk, span.from, span.to)
       IN  /\ ~HasAsyncMarker(splitlines(disk)[last.line_num])
           /\ \A p \in span.from..span.to :
                ~(code[p] /\ p \notin nested /\ bare_return_match(disk, p))

\* C6 (reverse-order safety): main visits the flagged lines of a file in
\* strictly descending order; a call at line L leaves every line before L
\* as it was, in content and in position; so every line number still to be
\* visited, and every line up to it, holds what it held when the run
\* started.
ReverseOrderSafety ==
  /\ \A i \in 1..Len(pending) : \A j \in 1..Len(pending) :
       i < j => pending[i] > pending[j]
  /\ (last.called /\ pending # << >>) => Head(pending) < last.line_num
  /\ last.called => StartsWith(disk, LinesBefore(last.before, last.line_num))
  /\ \A i \in 1..Len(pending) : StartsWith(disk, LinesBefore(start, pending[i] + 1))

\* C6's case: a call has changed the number of lines of the file and a
\* smaller line number is still to be visited.
ReverseOrderWitness ==
  /\ last.called
  /\ last.ok
  /\ pending # << >>
  /\ Len(splitlines(disk)) # Len(splitlines(last.before))

\* C7 (top-level only): a successful fix_async_method on a Task<T> method
\* whose body holds a lambda with its own braces leaves the lambda's body,
\* its return statements included, as it was.
TopLevelOnly ==
  (FixCalled /\ last.ok /\ IsWrappedValue(FlaggedLine))
    => LambdaText(disk, last.line_num) = LambdaText(last.before, last.line_num)

\* C8 (failure leaves the file untouched): when fix_async_method or
\* add_pragma_disable does not report success, the file on disk is what it
\* was before the call.
FailureLeavesFileUntouched ==
  (last.called /\ ~last.ok) => disk = last.before

\* C8's case: in one run a call failed on a read error and the last call
\* read the file and failed on its line (out of range, or no 'async'),
\* after an earlier run had rewritten the file.
FailureWitness ==
  /\ rerun
  /\ last.called
  /\ ~last.ok
  /\ ~last.read_failed
  /\ total_failed = 2
  /\ read_errors = 1

\* C9 (AlreadyFixed is a success): a flagged line that carries no async
\* marker is not rewritten and main counts the location as fixed.
AlreadyFixedIsSuccess ==
  (FixCalled /\ ~HasAsyncMarker(FlaggedLine))
    => (last.counted = "fixed" /\ disk = last.before)

\* C10 (signature mismatch is skipped): when the flagged signature is a
\* bare Task and the method holds a "return <value>;", the location is
\* reported as not fixed and nothing of it is rewritten.
SignatureMismatchSkipped ==
  (/\ FixCalled
   /\ HasAsyncMarker(FlaggedLine)
   /\ IsWrappedVoid(FlaggedLine)
   /\ LET span == MethodSpan(last.before, last.line_num)
          code == Lex(last.before).code
      IN  \E p \in span.from..span.to :
            ReturnKeywordAt(last.before, code, p) /\ ~bare_return_match(last.before, p))
    => (~last.ok /\ disk = last.before)


\* the text fix_async_method of fix_cs1998_v2.py hands to its Task<T>
\* branch for the method flagged at line n of text
MethodBodyV2(text, n) ==
  LET lines == splitlines(text)
      lines1 == [lines EXCEPT ![n] = sub_async(lines[n], 1)]
  IN  join(lines1, n, find_method_end(lines1, n))

\* The state in which the return-statement scans of the Task<T> branch end,
\* from position i of the body on: that of the scan that reaches the end of
\* the body without its ';', the start state when every scan finds its ';'.
RECURSIVE LastScanV2(_, _)
LastScanV2(body, i) ==
  LET return_start == First({ k \in i..Len(body) : at_return(body, k) })
  IN  IF return_start = 0 THEN scan_start(Len(body) + 1)
      ELSE LET st == scan_return(body, skip_ws(body, return_start + 6))
           IN  IF st.stmt_end = 0 THEN st ELSE LastScanV2(body, st.stmt_end + 1)

\* the scan of the method flagged by the last call came to the end of its
\* input with a literal or comment flag still set
ScanEndedInsideLiteral ==
  \/ /\ script = "fix_cs1998"
     /\ LET st == find_method_body(splitlines(last.before), last.line_num).st
        IN  st.in_string \/ st.in_char \/ st.in_multi_comment
  \/ /\ script = "fix_cs1998_v2"
     /\ IsWrappedValue(FlaggedLine)
     /\ LET st == LastScanV2(MethodBodyV2(last.before, last.line_num), 1)
        IN  st.in_string \/ st.in_char \/ st.in_verbatim

\* C11 (unterminated literal or comment is fatal): when the scan of the
\* flagged method ends inside a string, character literal, verbatim string
\* or block comment, the call does not report success and the file is not
\* written.
UnterminatedIsFatal ==
  (FixCalled /\ Contains(FlaggedLine, kw_async) /\ ScanEndedInsideLiteral)
    => (~last.ok /\ disk = last.before)

\* find_method_body, started at the line of the last call, came to the end
\* of its window of lines without the brace that closes the method
ClosingBraceNotFound ==
  LET st == find_method_body(splitlines(last.before), last.line_num).st
  IN  ~(st.found_brace /\ st.brace_count = 0)

\* C12 (bounded scan window): the scan for the method's end looks at no
\* line beyond its window of ScanWindow lines, and when the closing brace is
\* not found inside the window the call fails: it is not reported as fixed
\* and nothing is written.
BoundedScanWindow ==
  (FixCalled /\ script = "fix_cs1998" /\ Contains(FlaggedLine, kw_async))
    => /\ last.ok => last.method_end < last.line_num + ScanWindow
       /\ ClosingBraceNotFound => (~last.ok /\ disk = last.before)

\* line is a "#pragma warning disable CS1998" line
IsPragmaLine(line) ==
  HasAt(line, skip_ws(line, 1), txt_pragma_marker)

\* the last call was add_pragma_disable on a line of the file, it read the
\* file, and the line before the flagged one held no suppression marker
PragmaCalledOnBareLine ==
  /\ last.called
  /\ script = "fix_cs1998_pragmas"
  /\ ~last.read_failed
  /\ last.line_num \in 1..Len(splitlines(last.before))
  /\ \/ last.line_num = 1
     \/ ~Contains(splitlines(last.before)[last.line_num - 1], txt_pragma_probe)

\* C13 (SuppressOnly changes no logic): a successful add_pragma_disable at
\* line L, the line before holding no marker, leaves the file as it was
\* with one pragma line inserted before line L: one line more, the lines
\* before L in place, line L the pragma, every later line one place down.
SuppressOnlyFrame ==
  (PragmaCalledOnBareLine /\ last.ok)
    => LET old == splitlines(last.before)
           new == splitlines(disk)
           L == last.line_num
       IN  /\ Len(new) = Len(old) + 1
           /\ \A k \in 1..Len(old) : new[IF k < L THEN k ELSE k + 1] = old[k]
           /\ IsPragmaLine(new[L])
           /\ skip_ws(new[L], 1) = skip_ws(old[L], 1)

\* C13's case: a pragma was inserted before an indented method line that
\* is not the first line of the file.
SuppressOnlyWitness ==
  /\ PragmaCalledOnBareLine
  /\ last.ok
  /\ last.line_num > 1
  /\ Len(splitlines(disk)) = Len(splitlines(last.before)) + 1
  /\ IsPragmaLine(splitlines(disk)[last.line_num])
  /\ skip_ws(splitlines(disk)[last.line_num], 1) > 1

\* C14 (error isolation): a failure never ends the run and every flagged
\* location is counted exactly once, as fixed or as failed: after any number
\* of calls, failed ones among them, the locations counted so far and the
\* locations still to be visited make up the flagged locations, so that at
\* the end of the run total_fixed + total_failed is their number.
ErrorIsolation ==
  LET order == sorted_reverse(warnings)
      counted == total_fixed + total_failed
  IN  /\ counted <= Len(order)
      /\ pending = SubSeq(order, counted + 1, Len(order))

(***************************************************************************)
(* The scanners' lexical state                                             *)
(***************************************************************************)
\* how many of the flags are set
FlagsSet(flags) ==
  Cardinality({ k \in 1..Len(flags) : flags[k] })

\* C15 (lexical state exclusivity): at every character position of every
\* scan, for every text, at most one of the scanner's literal and comment
\* flags is set: in_string, in_char, in_single_comment, in_multi_comment in
\* find_method_body, and in_string, in_char, in_verbatim in the
\* return-statement scan of fix_cs1998_v2.
LexicalStateExclusivity ==
  /\ script = "fix_cs1998" =>
       FlagsSet(<< scan_st.in_string, scan_st.in_char, scan_st.in_single_comment,
                   scan_st.in_multi_comment >>) <= 1
  /\ script = "fix_cs1998_v2" =>
       FlagsSet(<< scan_st.in_string, scan_st.in_char, scan_st.in_verbatim >>) <= 1

\* the return-statement scan has passed an apostrophe inside a string, and
\* find_method_body, on another text, a quote inside a block comment
LexicalStateWitness ==
  \/ /\ script = "fix_cs1998_v2"
     /\ scan_st.in_string
     /\ scan_st.pos > 2
     /\ disk[scan_st.pos - 1] = "'"
     /\ disk[scan_st.pos - 2] = "\""
  \/ /\ script = "fix_cs1998"
     /\ scan_st.in_multi_comment
     /\ scan_st.j > 3
     /\ scan_line = 1
     /\ disk[scan_st.j - 1] = "\""

\* the scan's variables other than its position and in_verbatim
ScanRest(st) ==
  << st.in_string, st.in_char, st.escape_next, st.paren_depth, st.brace_depth,
     st.bracket_depth, st.stmt_end >>

\* C16 (verbatim-string rule): in the return-statement scan, '@"' seen in
\* code state enters the verbatim state; inside it a quote followed by a
\* quote consumes both and stays, a lone quote ends it, and every other
\* character, a backslash, a ';' or a bracket among them, is passed over: the
\* escape flag, the depth counters and the statement's end are left alone.
VerbatimRule ==
  LET i == scan_st.pos
      char == disk[i]
      quote_follows == i + 1 <= Len(disk) /\ disk[i + 1] = "\""
  IN  /\ (/\ char = "@" /\ quote_follows
          /\ ~scan_st.in_string /\ ~scan_st.in_char /\ ~scan_st.in_verbatim
          /\ ~scan_st.escape_next) =>
            /\ scan_st'.in_verbatim
            /\ scan_st'.pos = i + 2
            /\ ScanRest(scan_st') = ScanRest(scan_st)
      /\ scan_st.in_verbatim =>
            /\ ~scan_st.escape_next
            /\ ScanRest(scan_st') = ScanRest(scan_st)
            /\ (char = "\"" /\ quote_follows) =>
                 (scan_st'.in_verbatim /\ scan_st'.pos = i + 2)
            /\ (char = "\"" /\ ~quote_follows) =>
                 (~scan_st'.in_verbatim /\ scan_st'.pos = i + 1)
            /\ char # "\"" =>
                 (scan_st'.in_verbatim /\ scan_st'.pos = i + 1)

VerbatimStringRule ==
  [][ScanV2Step => VerbatimRule]_vars

\* the scan has passed a doubled quote inside a verbatim string and is
\* still inside it
VerbatimStringWitness ==
  /\ script = "fix_cs1998_v2"
  /\ scan_st.in_verbatim
  /\ scan_st.pos = 5
  /\ disk = << "@", "\"", "\"", "\"" >>

(***************************************************************************)
(* The return keyword and the text around it                               *)
(***************************************************************************)
\* 'return' stands at position q of line as the tail of a longer identifier
IdentifierTailAt(line, q) ==
  q > 1 /\ HasAt(line, q, kw_return) /\ isword(line[q - 1])

\* line holds 'return' as the tail of an identifier and nowhere as a keyword
OnlyIdentifierReturn(line) ==
  /\ \E q \in 1..Len(line) : IdentifierTailAt(line, q)
  /\ \A q \in 1..Len(line) : HasAt(line, q, kw_return) => IdentifierTailAt(line, q)

\* C17 (keyword boundary): 'return' is taken for a return statement only
\* when it is the whole keyword: a line that holds it only as the tail of a
\* longer identifier (my_return = 5;) is in the file after the call as it
\* was before, and no such occurrence is given a wrapper.
KeywordBoundary ==
  (FixCalled /\ last.ok) =>
    LET before == splitlines(last.before)
        after == splitlines(disk)
    IN  /\ \A k \in 1..Len(before) :
             OnlyIdentifierReturn(before[k]) => \E j \in 1..Len(after) : after[j] = before[k]
        /\ \A q \in 1..Len(disk) :
             IdentifierTailAt(disk, q) => ~HasAt(disk, q, txt_return_FromResult)

\* The return keyword of the body, from position i on, whose statement the
\* return-statement scan does not see end: the scan started behind it
\* reaches the end of the body without a ';'.  0 when every statement ends.
RECURSIVE UnfinishedReturnV2(_, _)
UnfinishedReturnV2(body, i) ==
  LET return_start == First({ k \in i..Len(body) : at_return(body, k) })
  IN  IF return_start = 0 THEN 0
      ELSE LET st == scan_return(body, skip_ws(body, return_start + 6))
           IN  IF st.stmt_end = 0 THEN return_start
               ELSE UnfinishedReturnV2(body, st.stmt_end + 1)

\* text ends with suffix
EndsWith(text, suffix) ==
  /\ Len(text) >= Len(suffix)
  /\ SubSeq(text, Len(text) - Len(suffix) + 1, Len(text)) = suffix

\* C18 (no text is lost): the Task<T> branch of fix_async_method in
\* fix_cs1998_v2 copies every character outside the return statements it
\* rewrites: the lines before and after the method stay where they were, the
\* body up to its first return keyword is copied, and when a return keyword
\* is not followed by a terminating ';' before the end of the body, the text
\* from that keyword to the end of the body is still in the output.
NoTextLost ==
  (/\ FixCalled
   /\ script = "fix_cs1998_v2"
   /\ last.ok
   /\ IsWrappedValue(sub_async(FlaggedLine, 1))) =>
    LET body == MethodBodyV2(last.before, last.line_num)
        head == LinesBefore(last.before, last.line_num)
        tail == SubSeq(last.before, LineOffset(last.before, last.method_end + 1) + 1,
                       Len(last.before))
        first == First({ k \in 1..Len(body) : at_return(body, k) })
        unfinished == UnfinishedReturnV2(body, 1)
    IN  /\ StartsWith(disk, head)
        /\ EndsWith(disk, tail)
        /\ Len(disk) >= Len(head) + Len(tail)
        /\ LET new_body == SubSeq(disk, Len(head) + 1, Len(disk) - Len(tail))
           IN  /\ StartsWith(new_body, SubSeq(body, 1, IF first = 0 THEN Len(body) ELSE first - 1))
               /\ unfinished # 0 => EndsWith(new_body, SubSeq(body, unfinished, Len(body)))

(***************************************************************************)
(* The suppression pragma on a second run                                  *)
(***************************************************************************)
\* The script was run twice over one flagged location, no read failed, and
\* the second run has called add_pragma_disable with the line number at
\* which the first run inserted its pragma.
PragmaCalledTwice ==
  /\ script = "fix_cs1998_pragmas"
  /\ rerun
  /\ last.called
  /\ read_errors = 0
  /\ warnings = { last.line_num }
  /\ last.line_num <= Len(splitlines(start))
  /\ IsPragmaLine(splitlines(start)[last.line_num])

\* C19 (suppression is inserted once): add_pragma_disable called a second
\* time with the same file and the same line number finds the location
\* already fixed: it returns True, does not modify the file, and exactly one
\* pragma line stands in front of the method.
InsertedOnce ==
  PragmaCalledTwice =>
    LET lines == splitlines(disk)
        L == last.line_num
    IN  /\ last.ok
        /\ disk = last.before
        /\ IsPragmaLine(lines[L])
        /\ L + 1 <= Len(lines) => ~IsPragmaLine(lines[L + 1])

====
